---------------------------- MODULE Spec2Model ----------------------------
(***************************************************************************)
(* Model of pkg/apis/apps/v1/helper/helper.go of advanced-statefulset:     *)
(* the delete-slots annotation accessor (GetDeleteSlots, SetDeleteSlots,   *)
(* AddDeleteSlots) and the ordinal allocator built on it                   *)
(* (GetMaxReplicaCountAndDeleteSlots, GetPodOrdinals, GetMaxPodOrdinal,    *)
(* GetMinPodOrdinal, CalculateScaleOutPodOrdinal).                         *)
(*                                                                         *)
(* An annotation value is the Go string, modelled as its sequence of       *)
(* bytes; json.Marshal and json.Unmarshal are modelled on those bytes.     *)
(* int32 arithmetic wraps as in Go.                                        *)
(***************************************************************************)
EXTENDS Integers, Sequences, FiniteSets, TLC

VARIABLES annotations, replicas, pods, ret

vars == <<annotations, replicas, pods, ret>>

---------------------------------------------------------------------------
(* Bounds of the model. *)

\* desired cardinalities are drawn from (-NegReplicas)..MaxReplicas
MaxReplicas == 3
NegReplicas == 1
\* reserved slots are drawn from (-NegSlots)..MaxSlot
MaxSlot == 3
NegSlots == 2
\* the controller run stops reserving once this many slots are stored
MaxDeleteSlots == 3

---------------------------------------------------------------------------
(* int32 *)

MaxInt32 == 2147483647
MinInt32 == (-MaxInt32) - 1

\* replicaCount++ on an int32
Inc32(x) == IF x = MaxInt32 THEN MinInt32 ELSE x + 1

\* a + b on int32, for b >= 0
Add32(a, b) == IF a > MaxInt32 - b
                 THEN MinInt32 + ((b - (MaxInt32 - a)) - 1)
                 ELSE a + b

\* t - c on int32, for t > c
Sub32(t, c) == IF c < 0 /\ t > MaxInt32 + c
                 THEN ((t - MaxInt32) - (c + MaxInt32)) - 2
                 ELSE t - c

---------------------------------------------------------------------------
(* sets.Int32 helpers *)

SetMin(S) == CHOOSE x \in S : \A y \in S : x <= y

RECURSIVE List(_)
\* sets.Int32.List: the members in ascending order
List(S) == IF S = {} THEN <<>>
           ELSE LET m == SetMin(S) IN <<m>> \o List(S \ {m})

Insert(slice) == {slice[i] : i \in 1..Len(slice)}

---------------------------------------------------------------------------
(* encoding/json on []int32, over bytes *)

LBracket == 91
RBracket == 93
Comma == 44
Minus == 45
Zero == 48
Space == 32
Tab == 9
LineFeed == 10
CarriageReturn == 13

Null == <<110, 117, 108, 108>>

IsSpace(c) == c \in {Space, Tab, LineFeed, CarriageReturn}
IsDigit(c) == c >= Zero /\ c <= Zero + 9

RECURSIVE FormatNat(_)
FormatNat(n) == IF n < 10 THEN <<Zero + n>>
                ELSE FormatNat(n \div 10) \o <<Zero + (n % 10)>>

\* strconv formatting of one int32
FormatInt(n) == IF n >= 0 THEN FormatNat(n)
                ELSE IF n = MinInt32
                  THEN <<Minus>> \o FormatNat(MaxInt32 \div 10) \o <<Zero + 8>>
                  ELSE <<Minus>> \o FormatNat(-n)

RECURSIVE JoinInts(_)
JoinInts(slice) == IF Len(slice) = 0 THEN <<>>
                   ELSE IF Len(slice) = 1 THEN FormatInt(slice[1])
                   ELSE FormatInt(slice[1]) \o <<Comma>> \o JoinInts(Tail(slice))

\* json.Marshal of a []int32
Marshal(slice) == <<LBracket>> \o JoinInts(slice) \o <<RBracket>>

RECURSIVE TrimLeft(_)
TrimLeft(s) == IF Len(s) > 0 /\ IsSpace(s[1]) THEN TrimLeft(Tail(s)) ELSE s

RECURSIVE TrimRight(_)
TrimRight(s) == IF Len(s) > 0 /\ IsSpace(s[Len(s)])
                  THEN TrimRight(SubSeq(s, 1, Len(s) - 1)) ELSE s

Trim(s) == TrimRight(TrimLeft(s))

RECURSIVE SplitComma(_, _, _)
\* the elements of an array body, cut at the commas
SplitComma(s, cur, acc) ==
    IF Len(s) = 0 THEN Append(acc, cur)
    ELSE IF s[1] = Comma THEN SplitComma(Tail(s), <<>>, Append(acc, cur))
    ELSE SplitComma(Tail(s), Append(cur, s[1]), acc)

RECURSIVE ParseDigits(_, _)
\* the digits accumulated as a negative number; 1 on int32 overflow
ParseDigits(s, acc) ==
    IF Len(s) = 0 THEN acc
    ELSE LET d == s[1] - Zero IN
         IF acc < -(MaxInt32 \div 10) THEN 1
         ELSE IF acc * 10 < MinInt32 + d THEN 1
         ELSE ParseDigits(Tail(s), acc * 10 - d)

\* one array element decoded into an int32: [ok, v]
ParseInt32(tok) ==
    LET neg == Len(tok) > 0 /\ tok[1] = Minus
        digits == IF neg THEN Tail(tok) ELSE tok
        wellFormed == /\ Len(digits) > 0
                      /\ \A i \in 1..Len(digits) : IsDigit(digits[i])
                      /\ (Len(digits) > 1 => digits[1] # Zero)
    IN IF tok = Null THEN [ok |-> TRUE, v |-> 0]
       ELSE IF ~wellFormed THEN [ok |-> FALSE, v |-> 0]
       ELSE LET m == ParseDigits(digits, 0) IN
            IF m = 1 THEN [ok |-> FALSE, v |-> 0]
            ELSE IF neg THEN [ok |-> TRUE, v |-> m]
            ELSE IF m = MinInt32 THEN [ok |-> FALSE, v |-> 0]
            ELSE [ok |-> TRUE, v |-> -m]

\* json.Unmarshal(value, &slice) for slice []int32: [ok, slice]
Unmarshal(value) ==
    LET s == Trim(value) IN
    IF s = Null THEN [ok |-> TRUE, slice |-> <<>>]
    ELSE IF Len(s) < 2 \/ s[1] # LBracket \/ s[Len(s)] # RBracket
      THEN [ok |-> FALSE, slice |-> <<>>]
    ELSE LET body == SubSeq(s, 2, Len(s) - 1) IN
         IF Trim(body) = <<>> THEN [ok |-> TRUE, slice |-> <<>>]
         ELSE LET toks == SplitComma(body, <<>>, <<>>)
                  elems == [i \in 1..Len(toks) |-> ParseInt32(Trim(toks[i]))]
              IN IF \A i \in 1..Len(toks) : elems[i].ok
                   THEN [ok |-> TRUE, slice |-> [i \in 1..Len(toks) |-> elems[i].v]]
                   ELSE [ok |-> FALSE, slice |-> <<>>]

---------------------------------------------------------------------------
(* The identity object's annotation bag: nil, or a map from keys to values *)

DeleteSlotsAnn == "delete-slots"
OtherAnn == "other"
OtherValue == <<118>>

NilAnnotations == [nil |-> TRUE, kv |-> <<>>]
MakeMap(kv) == [nil |-> FALSE, kv |-> kv]

GetDeleteSlots(set) ==
    IF set.nil THEN {}
    ELSE IF DeleteSlotsAnn \notin DOMAIN set.kv THEN {}
    ELSE LET r == Unmarshal(set.kv[DeleteSlotsAnn]) IN
         IF ~r.ok THEN {} ELSE Insert(r.slice)

\* SetDeleteSlots without its clear branch: an empty set is stored as "[]"
SetDeleteSlotsNoClear(set, deleteSlots) ==
    LET b == Marshal(List(deleteSlots))
        old == IF set.nil THEN <<>> ELSE set.kv
    IN MakeMap([k \in DOMAIN old \cup {DeleteSlotsAnn} |->
                  IF k = DeleteSlotsAnn THEN b ELSE old[k]])

\* the object after SetDeleteSlots(set, deleteSlots)
SetDeleteSlots(set, deleteSlots) ==
    IF Cardinality(deleteSlots) = 0
      THEN IF set.nil THEN set
           ELSE MakeMap([k \in DOMAIN set.kv \ {DeleteSlotsAnn} |-> set.kv[k]])
      ELSE LET b == Marshal(List(deleteSlots))
               old == IF set.nil THEN <<>> ELSE set.kv
           IN MakeMap([k \in DOMAIN old \cup {DeleteSlotsAnn} |->
                         IF k = DeleteSlotsAnn THEN b ELSE old[k]])

\* AddDeleteSlots that writes the new slots over the stored ones
AddDeleteSlotsOverwrite(set, deleteSlots) == SetDeleteSlots(set, deleteSlots)

\* the object after AddDeleteSlots(set, deleteSlots)
AddDeleteSlots(set, deleteSlots) ==
    LET currentDeleteSlots == GetDeleteSlots(set)
    IN SetDeleteSlots(set, currentDeleteSlots \cup deleteSlots)

---------------------------------------------------------------------------
(* The ordinal allocator *)

RECURSIVE ScanDeleteSlots(_, _, _)
\* the loop of GetMaxReplicaCountAndDeleteSlots over deleteSlotsCopy.List()
ScanDeleteSlots(list, replicaCount, deleteSlotsCopy) ==
    IF Len(list) = 0
      THEN [replicaCount |-> replicaCount, deleteSlotsCopy |-> deleteSlotsCopy]
    ELSE LET deleteSlot == list[1] IN
         IF deleteSlot < replicaCount
           THEN ScanDeleteSlots(Tail(list), Inc32(replicaCount), deleteSlotsCopy)
           ELSE ScanDeleteSlots(Tail(list), replicaCount,
                                deleteSlotsCopy \ {deleteSlot})

RECURSIVE Reverse(_)
Reverse(s) == IF Len(s) = 0 THEN <<>> ELSE Reverse(Tail(s)) \o <<s[1]>>

\* GetMaxReplicaCountAndDeleteSlots scanning the slots out of ascending order
GetMaxReplicaCountAndDeleteSlotsUnsorted(replicasArg, deleteSlots) ==
    LET deleteSlotsCopy == {k \in deleteSlots : TRUE}
        r == ScanDeleteSlots(Reverse(List(deleteSlotsCopy)), replicasArg,
                             deleteSlotsCopy)
    IN [replicaCount |-> r.replicaCount,
        deleteSlotsCopy |-> r.deleteSlotsCopy,
        deleteSlots |-> deleteSlots]

\* GetMaxReplicaCountAndDeleteSlots deleting from the caller's set: no copy
GetMaxReplicaCountAndDeleteSlotsAliased(replicasArg, deleteSlots) ==
    LET r == ScanDeleteSlots(List(deleteSlots), replicasArg, deleteSlots)
    IN [replicaCount |-> r.replicaCount,
        deleteSlotsCopy |-> r.deleteSlotsCopy,
        deleteSlots |-> r.deleteSlotsCopy]

\* GetMaxReplicaCountAndDeleteSlots clamping a negative replicas to 0
GetMaxReplicaCountAndDeleteSlotsClamped(replicasArg, deleteSlots) ==
    LET deleteSlotsCopy == {k \in deleteSlots : TRUE}
        start == IF replicasArg < 0 THEN 0 ELSE replicasArg
        r == ScanDeleteSlots(List(deleteSlotsCopy), start, deleteSlotsCopy)
    IN [replicaCount |-> r.replicaCount,
        deleteSlotsCopy |-> r.deleteSlotsCopy,
        deleteSlots |-> deleteSlots]

\* The two results of the call, and deleteSlots: the contents of the
\* caller's set when the call returns.
GetMaxReplicaCountAndDeleteSlots(replicasArg, deleteSlots) ==
    LET deleteSlotsCopy == {k \in deleteSlots : TRUE}
        r == ScanDeleteSlots(List(deleteSlotsCopy), replicasArg, deleteSlotsCopy)
    IN [replicaCount |-> r.replicaCount,
        deleteSlotsCopy |-> r.deleteSlotsCopy,
        deleteSlots |-> deleteSlots]

\* GetPodOrdinalsFromReplicasAndDeleteSlots without the deleteSlots.Has test
GetPodOrdinalsFromReplicasAndDeleteSlotsDense(replicasArg, deleteSlots) ==
    LET r == GetMaxReplicaCountAndDeleteSlots(replicasArg, deleteSlots)
    IN {i \in 0..(r.replicaCount - 1) : TRUE}

GetPodOrdinalsFromReplicasAndDeleteSlots(replicasArg, deleteSlots) ==
    LET r == GetMaxReplicaCountAndDeleteSlots(replicasArg, deleteSlots)
    IN {i \in 0..(r.replicaCount - 1) : i \notin r.deleteSlotsCopy}

GetPodOrdinals(replicasArg, set) ==
    GetPodOrdinalsFromReplicasAndDeleteSlots(replicasArg, GetDeleteSlots(set))

GetMaxPodOrdinal(replicasArg, set) ==
    LET ordinals == GetPodOrdinals(replicasArg, set) IN
    IF \E k \in ordinals : k > -1
      THEN CHOOSE k \in ordinals : \A j \in ordinals : j <= k
      ELSE -1

GetMinPodOrdinal(replicasArg, set) ==
    LET ordinals == GetPodOrdinals(replicasArg, set) IN
    IF \E k \in ordinals : k < MaxInt32
      THEN CHOOSE k \in ordinals : \A j \in ordinals : k <= j
      ELSE MaxInt32

RECURSIVE ScaleOutLoop(_, _, _, _, _)
\* the for loop of CalculateScaleOutPodOrdinal
ScaleOutLoop(i, expectedOrdinalSets, want, maxOrdinal, slots) ==
    IF ~(Cardinality(expectedOrdinalSets) < want) THEN expectedOrdinalSets
    ELSE LET expectedOrdinal == Add32(maxOrdinal, i) IN
         IF expectedOrdinal \notin slots
           THEN ScaleOutLoop(i + 1, expectedOrdinalSets \cup {expectedOrdinal},
                             want, maxOrdinal, slots)
           ELSE ScaleOutLoop(i + 1, expectedOrdinalSets, want, maxOrdinal, slots)

\* CalculateScaleOutPodOrdinal skipping only the consumed slots
CalculateScaleOutPodOrdinalConsumed(currentReplicas, targetReplicas, set) ==
    IF currentReplicas >= targetReplicas THEN {}
    ELSE LET slots == GetMaxReplicaCountAndDeleteSlots(
                          currentReplicas, GetDeleteSlots(set)).deleteSlotsCopy
             maxOrdinal == GetMaxPodOrdinal(currentReplicas, set)
         IN ScaleOutLoop(1, {}, Sub32(targetReplicas, currentReplicas),
                         maxOrdinal, slots)

\* CalculateScaleOutPodOrdinal with its loop started at i = 0
CalculateScaleOutPodOrdinalFromMax(currentReplicas, targetReplicas, set) ==
    IF currentReplicas >= targetReplicas THEN {}
    ELSE LET slots == GetDeleteSlots(set)
             maxOrdinal == GetMaxPodOrdinal(currentReplicas, set)
         IN ScaleOutLoop(0, {}, Sub32(targetReplicas, currentReplicas),
                         maxOrdinal, slots)

CalculateScaleOutPodOrdinal(currentReplicas, targetReplicas, set) ==
    IF currentReplicas >= targetReplicas THEN {}
    ELSE LET slots == GetDeleteSlots(set)
             maxOrdinal == GetMaxPodOrdinal(currentReplicas, set)
         IN ScaleOutLoop(1, {}, Sub32(targetReplicas, currentReplicas),
                         maxOrdinal, slots)

---------------------------------------------------------------------------
(* Inputs *)

Replicas == (-NegReplicas)..MaxReplicas

\* targetReplicas for a scale-out from c: the cardinalities, and with c < 0
\* the largest int32, for which targetReplicas - currentReplicas wraps
Targets(c) == Replicas \cup (IF c < 0 THEN {MaxInt32} ELSE {})
Slots == (-NegSlots)..MaxSlot

Bracketed(body) == <<LBracket>> \o body \o <<RBracket>>

\* annotation values nobody wrote through SetDeleteSlots
ForeignValues ==
    { Bracketed(<<>>),                                            \* []
      Null,                                                       \* null
      OtherValue,                                                 \* v
      Bracketed(FormatInt(1) \o <<Comma>> \o FormatInt(1)),       \* [1,1]
      Bracketed(<<Space>> \o FormatInt(2) \o <<Space, Comma, Space>>
                \o FormatInt(0) \o <<Space>>),                    \* [ 2 , 0 ]
      Bracketed(FormatInt(1) \o <<46>> \o FormatInt(5)),          \* [1.5]
      Bracketed(FormatInt(0) \o FormatInt(1)),                    \* [01]
      Bracketed(FormatInt(MaxInt32) \o FormatInt(0)),             \* [21474836470]
      Bracketed(FormatInt(1) \o <<Comma>>),                       \* [1,]
      Bracketed(Null \o <<Comma>> \o FormatInt(2)) }              \* [null,2]

WrittenValues == {Marshal(List(S)) : S \in (SUBSET Slots) \ {{}}}

InitAnnotations ==
    {NilAnnotations,
     MakeMap([k \in {} |-> <<>>]),
     MakeMap([k \in {OtherAnn} |-> OtherValue])}
    \cup {MakeMap([k \in {DeleteSlotsAnn} |-> v]) :
            v \in ForeignValues \cup WrittenValues}
    \cup {MakeMap([k \in {DeleteSlotsAnn, OtherAnn} |->
                     IF k = DeleteSlotsAnn THEN v ELSE OtherValue]) :
            v \in ForeignValues \cup WrittenValues}

---------------------------------------------------------------------------
(* Calls of the helper package on one object.  A call is made when the     *)
(* caller holds no result; ret then records the call, its arguments and    *)
(* what it returned, until the caller takes the result (Return).           *)

NoCall == [op |-> "none"]
Idle == ret = NoCall

Init ==
    /\ annotations \in InitAnnotations
    /\ replicas = 0
    /\ pods = {}
    /\ ret = NoCall

CallGetDeleteSlots ==
    /\ Idle
    /\ ret' = [op |-> "GetDeleteSlots", result |-> GetDeleteSlots(annotations)]
    /\ UNCHANGED <<annotations, replicas, pods>>

CallSetDeleteSlots ==
    /\ Idle
    /\ \E S \in SUBSET Slots :
        /\ annotations' = SetDeleteSlots(annotations, S)
        /\ ret' = [op |-> "SetDeleteSlots", deleteSlots |-> S,
                   before |-> annotations, err |-> "nil"]
        /\ UNCHANGED <<replicas, pods>>

CallAddDeleteSlots ==
    /\ Idle
    /\ \E S \in SUBSET Slots :
        /\ annotations' = AddDeleteSlots(annotations, S)
        /\ ret' = [op |-> "AddDeleteSlots", deleteSlots |-> S,
                   before |-> annotations, err |-> "nil"]
        /\ UNCHANGED <<replicas, pods>>

CallGetMaxReplicaCountAndDeleteSlots ==
    /\ Idle
    /\ \E d \in Replicas, R \in SUBSET Slots :
        LET r == GetMaxReplicaCountAndDeleteSlots(d, R) IN
        /\ ret' = [op |-> "GetMaxReplicaCountAndDeleteSlots",
                   replicas |-> d, deleteSlots |-> R,
                   replicaCount |-> r.replicaCount,
                   consumed |-> r.deleteSlotsCopy,
                   deleteSlotsAfter |-> r.deleteSlots]
        /\ UNCHANGED <<annotations, replicas, pods>>

CallGetPodOrdinalsFromReplicasAndDeleteSlots ==
    /\ Idle
    /\ \E d \in Replicas, R \in SUBSET Slots :
        /\ ret' = [op |-> "GetPodOrdinalsFromReplicasAndDeleteSlots",
                   replicas |-> d, deleteSlots |-> R,
                   result |-> GetPodOrdinalsFromReplicasAndDeleteSlots(d, R),
                   deleteSlotsAfter |->
                       GetMaxReplicaCountAndDeleteSlots(d, R).deleteSlots]
        /\ UNCHANGED <<annotations, replicas, pods>>

CallGetPodOrdinals ==
    /\ Idle
    /\ \E d \in Replicas :
        /\ ret' = [op |-> "GetPodOrdinals", replicas |-> d,
                   result |-> GetPodOrdinals(d, annotations)]
        /\ UNCHANGED <<annotations, replicas, pods>>

CallGetMaxPodOrdinal ==
    /\ Idle
    /\ \E d \in Replicas :
        /\ ret' = [op |-> "GetMaxPodOrdinal", replicas |-> d,
                   result |-> GetMaxPodOrdinal(d, annotations)]
        /\ UNCHANGED <<annotations, replicas, pods>>

CallGetMinPodOrdinal ==
    /\ Idle
    /\ \E d \in Replicas :
        /\ ret' = [op |-> "GetMinPodOrdinal", replicas |-> d,
                   result |-> GetMinPodOrdinal(d, annotations)]
        /\ UNCHANGED <<annotations, replicas, pods>>

CallCalculateScaleOutPodOrdinal ==
    /\ Idle
    /\ \E c \in Replicas : \E t \in Targets(c) :
        /\ ret' = [op |-> "CalculateScaleOutPodOrdinal",
                   replicas |-> c, target |-> t,
                   result |-> CalculateScaleOutPodOrdinal(c, t, annotations)]
        /\ UNCHANGED <<annotations, replicas, pods>>

Return ==
    /\ ~Idle
    /\ ret' = NoCall
    /\ UNCHANGED <<annotations, replicas, pods>>

Next ==
    \/ Return
    \/ CallGetDeleteSlots
    \/ CallSetDeleteSlots
    \/ CallAddDeleteSlots
    \/ CallGetMaxReplicaCountAndDeleteSlots
    \/ CallGetPodOrdinalsFromReplicasAndDeleteSlots
    \/ CallGetPodOrdinals
    \/ CallGetMaxPodOrdinal
    \/ CallGetMinPodOrdinal
    \/ CallCalculateScaleOutPodOrdinal

Spec == Init /\ [][Next]_vars

---------------------------------------------------------------------------
(* A workload scaled by its operator: replicas is spec.replicas, pods the  *)
(* ordinals of its members.  Scale-out adds the ordinals                   *)
(* CalculateScaleOutPodOrdinal hands out; scale-in lowers replicas and     *)
(* leaves delete-slots alone, the members outside GetPodOrdinals go;       *)
(* scale-in at a position reserves the slot and decrements replicas in one *)
(* step.                                                                   *)

InitScale ==
    /\ annotations \in InitAnnotations
    /\ replicas \in 0..MaxReplicas
    /\ pods = GetPodOrdinals(replicas, annotations)
    /\ ret = NoCall

ScaleOut ==
    \E t \in replicas..MaxReplicas :
        LET new == CalculateScaleOutPodOrdinal(replicas, t, annotations) IN
        /\ pods' = pods \cup new
        /\ replicas' = t
        /\ ret' = [op |-> "ScaleOut", replicas |-> replicas, target |-> t,
                   active |-> GetPodOrdinals(replicas, annotations),
                   result |-> new]
        /\ UNCHANGED annotations

ScaleIn ==
    \E t \in 0..(replicas - 1) :
        /\ replicas' = t
        /\ pods' = pods \cap GetPodOrdinals(t, annotations)
        /\ ret' = [op |-> "ScaleIn", replicas |-> replicas, target |-> t,
                   active |-> GetPodOrdinals(replicas, annotations)]
        /\ UNCHANGED annotations

ScaleInAt ==
    /\ replicas >= 1
    /\ Cardinality(GetDeleteSlots(annotations)) < MaxDeleteSlots
    /\ \E s \in GetPodOrdinals(replicas, annotations) :
        /\ annotations' = AddDeleteSlots(annotations, {s})
        /\ replicas' = replicas - 1
        /\ pods' = pods \ {s}
        /\ ret' = [op |-> "ScaleInAt", replicas |-> replicas, slot |-> s,
                   deleteSlots |-> GetDeleteSlots(annotations),
                   active |-> GetPodOrdinals(replicas, annotations)]

NextScale == ScaleOut \/ ScaleIn \/ ScaleInAt

SpecScale == InitScale /\ [][NextScale]_vars

---------------------------------------------------------------------------
(* Properties *)

NonNegative(R) == \A r \in R : r >= 0

AllocatorOps == {"GetMaxReplicaCountAndDeleteSlots",
                 "GetPodOrdinalsFromReplicasAndDeleteSlots",
                 "GetPodOrdinals", "GetMaxPodOrdinal", "GetMinPodOrdinal",
                 "CalculateScaleOutPodOrdinal"}

\* the reservation set a call recorded in ret ran on
SlotsOf(r) == IF "deleteSlots" \in DOMAIN r THEN r.deleteSlots
              ELSE GetDeleteSlots(annotations)

\* the call recorded in ret ended in an InvalidArgument condition
Rejected(r) == "err" \in DOMAIN r /\ r.err = "InvalidArgument"

HasKey(set) == ~set.nil /\ DeleteSlotsAnn \in DOMAIN set.kv

\* C1: scale-in at a position keeps the other members' ordinals. With d >= 1,
\* R of non-negative ordinals and s active under (d, R), reserving s and
\* decrementing the cardinality in one step leaves exactly the former active
\* set without s: activeOrdinals(d-1, R + {s}) = activeOrdinals(d, R) \ {s}.
C1_ScaleInKeepsOrdinals ==
    (ret.op = "ScaleInAt" /\ NonNegative(ret.deleteSlots)) =>
        /\ ret.active =
             GetPodOrdinalsFromReplicasAndDeleteSlots(ret.replicas, ret.deleteSlots)
        /\ GetPodOrdinalsFromReplicasAndDeleteSlots(
               ret.replicas - 1, ret.deleteSlots \cup {ret.slot})
             = ret.active \ {ret.slot}
        /\ GetDeleteSlots(annotations) = ret.deleteSlots \cup {ret.slot}
        /\ replicas = ret.replicas - 1
        /\ GetPodOrdinals(replicas, annotations) = ret.active \ {ret.slot}

C1_Witness ==
    /\ ret.op = "ScaleInAt"
    /\ ret.deleteSlots = {2}
    /\ ret.active = {0, 1, 3}
    /\ ret.slot = 1
    /\ GetPodOrdinals(replicas, annotations) = {0, 3}

\* C2: cardinality. For every d >= 0 and every reservation set R,
\* activeOrdinals(d, R) has exactly d elements.
C2_Cardinality ==
    (ret.op = "GetPodOrdinalsFromReplicasAndDeleteSlots" /\ ret.replicas >= 0) =>
        Cardinality(ret.result) = ret.replicas

\* C3: scale-out monotonicity. For c >= 0, scaleOutOrdinals(c, t, R) has
\* t - c members when t > c and none when t <= c; each is above
\* maxActiveOrdinal(c, R) and none is a member of the full set R.
C3_ScaleOutMonotonic ==
    (ret.op = "CalculateScaleOutPodOrdinal" /\ ret.replicas >= 0) =>
        /\ ret.target > ret.replicas =>
             Cardinality(ret.result) = ret.target - ret.replicas
        /\ ret.target <= ret.replicas => ret.result = {}
        /\ \A o \in ret.result :
             /\ o > GetMaxPodOrdinal(ret.replicas, annotations)
             /\ o \notin GetDeleteSlots(annotations)

C3_Witness ==
    /\ ret.op = "CalculateScaleOutPodOrdinal"
    /\ ret.replicas = 1
    /\ ret.target = 3
    /\ GetDeleteSlots(annotations) = {0, 2}
    /\ ret.result = {3, 4}

\* C4: latent reservations are dormant. For d >= 0, the consumed set is
\* exactly the members of R below the boundary; a member of R at or above the
\* boundary is not consumed, and removing it from R changes neither the
\* boundary, nor the consumed set, nor the active set.
C4_LatentDormant ==
    (ret.op = "GetMaxReplicaCountAndDeleteSlots" /\ ret.replicas >= 0) =>
        /\ ret.consumed = {r \in ret.deleteSlots : r < ret.replicaCount}
        /\ \A r \in ret.deleteSlots :
             r >= ret.replicaCount =>
               LET less == GetMaxReplicaCountAndDeleteSlots(
                               ret.replicas, ret.deleteSlots \ {r})
               IN /\ r \notin ret.consumed
                  /\ less.replicaCount = ret.replicaCount
                  /\ less.deleteSlotsCopy = ret.consumed
                  /\ GetPodOrdinalsFromReplicasAndDeleteSlots(
                         ret.replicas, ret.deleteSlots \ {r})
                       = GetPodOrdinalsFromReplicasAndDeleteSlots(
                             ret.replicas, ret.deleteSlots)

C4_Witness ==
    /\ ret.op = "GetMaxReplicaCountAndDeleteSlots"
    /\ ret.replicas = 1
    /\ ret.deleteSlots = {0, 1, 3}
    /\ ret.replicaCount = 3
    /\ ret.consumed = {0, 1}

\* C5 as stated: an allocator function called with a negative cardinality
\* ends in an InvalidArgument condition and returns no result.
C5_RejectsNegative ==
    (ret.op \in AllocatorOps /\ ret.replicas < 0) => Rejected(ret)

\* C5 as amended: a negative cardinality is not rejected. The allocator
\* computes with it as with any other int32: the boundary is d plus the
\* number of consumed slots, the consumed slots are the members of R below
\* the boundary; when R has no member below d the active set is empty, the
\* maximum is -1 and the minimum MaxInt32; and scale-out from c < 0 to t
\* hands out t - c ordinals when 0 < t - c <= MaxInt32, and none when
\* t <= c or when t - c exceeds MaxInt32 (the int32 difference is negative).
C5_NegativeComputed ==
    (ret.op \in AllocatorOps /\ ret.replicas < 0) =>
        LET R == SlotsOf(ret)
            none == \A r \in R : r >= ret.replicas
        IN /\ ~Rejected(ret)
           /\ ret.op = "GetMaxReplicaCountAndDeleteSlots" =>
                /\ ret.replicaCount = ret.replicas + Cardinality(ret.consumed)
                /\ ret.consumed = {r \in R : r < ret.replicaCount}
           /\ ret.op \in {"GetPodOrdinalsFromReplicasAndDeleteSlots",
                          "GetPodOrdinals"} =>
                (none => ret.result = {})
           /\ ret.op = "GetMaxPodOrdinal" => (none => ret.result = -1)
           /\ ret.op = "GetMinPodOrdinal" => (none => ret.result = MaxInt32)
           /\ ret.op = "CalculateScaleOutPodOrdinal" =>
                /\ (ret.target > ret.replicas
                      /\ ret.target <= MaxInt32 + ret.replicas) =>
                     Cardinality(ret.result) = ret.target - ret.replicas
                /\ (ret.target <= ret.replicas
                      \/ ret.target > MaxInt32 + ret.replicas) =>
                     ret.result = {}

\* a negative cardinality with slots below it: both are consumed and the
\* boundary is d + 2
C5_Witness ==
    /\ ret.op = "GetMaxReplicaCountAndDeleteSlots"
    /\ ret.replicas = -1
    /\ ret.deleteSlots = {-2, -1, 2}
    /\ ret.replicaCount = 1
    /\ ret.consumed = {-2, -1}

\* C6: empty workload. With desired cardinality 0 and R any reservation set
\* GetDeleteSlots returns for the object, the boundary is 0, nothing is
\* consumed, the active set is empty, the maximum is -1 and the minimum is
\* MaxInt32.
C6_EmptyWorkload ==
    (ret.op \in {"GetPodOrdinals", "GetMaxPodOrdinal", "GetMinPodOrdinal"}
       /\ ret.replicas = 0) =>
        LET R == GetDeleteSlots(annotations)
            b == GetMaxReplicaCountAndDeleteSlots(0, R)
        IN /\ b.replicaCount = 0
           /\ b.deleteSlotsCopy = {}
           /\ GetPodOrdinalsFromReplicasAndDeleteSlots(0, R) = {}
           /\ ret.op = "GetPodOrdinals" => ret.result = {}
           /\ ret.op = "GetMaxPodOrdinal" => ret.result = -1
           /\ ret.op = "GetMinPodOrdinal" => ret.result = MaxInt32

\* C7: AddDeleteSlots stores the union of the stored set and S, and a second
\* AddDeleteSlots with the same S leaves the stored set as it is.
C7_AddIdempotent ==
    ret.op = "AddDeleteSlots" =>
        /\ GetDeleteSlots(annotations)
             = GetDeleteSlots(ret.before) \cup ret.deleteSlots
        /\ GetDeleteSlots(AddDeleteSlots(annotations, ret.deleteSlots))
             = GetDeleteSlots(annotations)

C7_Witness ==
    /\ ret.op = "AddDeleteSlots"
    /\ GetDeleteSlots(ret.before) = {0, 2}
    /\ ret.deleteSlots = {-1, 2}
    /\ GetDeleteSlots(annotations) = {-1, 0, 2}

\* C8: accessor round trip. After SetDeleteSlots(obj, S), with or without an
\* annotation bag before, GetDeleteSlots(obj) is S; and when S is empty the
\* delete-slots key is absent from the bag.
C8_RoundTrip ==
    ret.op = "SetDeleteSlots" =>
        /\ GetDeleteSlots(annotations) = ret.deleteSlots
        /\ ret.deleteSlots = {} => ~HasKey(annotations)

C8_Witness ==
    /\ ret.op = "SetDeleteSlots"
    /\ ret.before.nil
    /\ ret.deleteSlots = {-1, 0, 3}
    /\ HasKey(annotations)

\* C9: the allocator never changes a reservation set. A step that is an
\* allocator call leaves the annotations as they are and returns with the
\* caller's set holding what it held at the call; the annotations, and so
\* the stored set, change only in a SetDeleteSlots or an AddDeleteSlots step.
C9_AllocatorFrame ==
    [][ /\ ret'.op \in AllocatorOps =>
             /\ annotations' = annotations
             /\ "deleteSlotsAfter" \in DOMAIN ret' =>
                  ret'.deleteSlotsAfter = ret'.deleteSlots
        /\ annotations' # annotations =>
             ret'.op \in {"SetDeleteSlots", "AddDeleteSlots"} ]_vars

C9_Witness ==
    /\ ret.op = "GetMaxReplicaCountAndDeleteSlots"
    /\ ret.deleteSlots = {0, 3}
    /\ ret.consumed = {0}
    /\ ret.deleteSlotsAfter = {0, 3}

\* C10: growth agrees with recomputation. With R of non-negative ordinals
\* and 0 <= c <= t, activeOrdinals(c, R) and scaleOutOrdinals(c, t, R) are
\* disjoint and their union is activeOrdinals(t, R); so the members
\* accumulated over the scale steps are activeOrdinals(replicas, R).
C10_GrowthAgrees ==
    NonNegative(GetDeleteSlots(annotations)) =>
        /\ pods = GetPodOrdinals(replicas, annotations)
        /\ ret.op = "ScaleOut" =>
             /\ ret.active \cap ret.result = {}
             /\ ret.active \cup ret.result
                  = GetPodOrdinals(ret.target, annotations)

C10_Witness ==
    /\ ret.op = "ScaleOut"
    /\ ret.replicas = 1
    /\ ret.target = 3
    /\ GetDeleteSlots(annotations) = {0, 2}
    /\ ret.result = {3, 4}
    /\ pods = {1, 3, 4}

=============================================================================
